---- MODULE Spec2Model ----
(***************************************************************************)
(* A model of cargo-make's descriptor loader, src/lib/descriptor/mod.rs:   *)
(* the merges of environments, lists and tasks, the resolution of the      *)
(* extends chain of the external descriptors, the loading of the bundled   *)
(* descriptors and the two passes of load.                                 *)
(***************************************************************************)
EXTENDS Integers, Sequences, FiniteSets, TLC

VARIABLES
    input,           \* the run's inputs: the files, the arguments of load, the process env
    pc,              \* the place of load and load_descriptors
    pass,            \* which call of load_descriptors: 1 or 2
    stack,           \* the frames of load_external_descriptor, innermost last
    ret,             \* the value the last frame returned
    ld_default_config,  \* load_descriptors' default_config
    ld_external_config, \* load_descriptors' external_config
    load_config,     \* load's config
    result,          \* what load returned
    envvars,         \* the process-wide variables this code writes
    log,             \* the reads, stamps, script invocations and writes, in order
    pure             \* the pure merge function applied, its operands and its result

vars == <<input, pc, pass, stack, ret, ld_default_config, ld_external_config, load_config, result,
          envvars, log, pure>>
loadvars == <<input, pc, pass, stack, ret, ld_default_config, ld_external_config, load_config, result,
              envvars, log>>

(***************************************************************************)
(* Option<T>: None is the empty sequence, Some(x) the sequence of x alone. *)
(***************************************************************************)
None == <<>>
Some(x) == <<x>>
is_some(o) == o /= <<>>
is_none(o) == o = <<>>
unwrap(o) == o[1]
unwrap_or(o, d) == IF is_some(o) THEN o[1] ELSE d

(***************************************************************************)
(* IndexMap<String, V>: a sequence of entries [k, v] with distinct keys,   *)
(* in insertion order.                                                     *)
(***************************************************************************)
IndexMap_new == <<>>
Keys(m) == {m[i].k : i \in 1..Len(m)}
KeySeq(m) == [i \in 1..Len(m) |-> m[i].k]
contains_key(m, key) == \E i \in 1..Len(m) : m[i].k = key
IndexOf(m, key) == CHOOSE i \in 1..Len(m) : m[i].k = key
get(m, key) == m[IndexOf(m, key)].v
\* insert: a present key keeps its place and takes the value, a new key is appended
insert(m, key, value) ==
    IF contains_key(m, key)
    THEN [m EXCEPT ![IndexOf(m, key)] = [k |-> key, v |-> value]]
    ELSE Append(m, [k |-> key, v |-> value])
\* swap_remove: the entry is removed and the last entry takes its place
swap_remove(m, key) ==
    LET i == IndexOf(m, key)
        n == Len(m)
    IN  [j \in 1..(n - 1) |-> IF j = i THEN m[n] ELSE m[j]]
IsIndexMap(m) == \A i, j \in 1..Len(m) : m[i].k = m[j].k => i = j

(***************************************************************************)
(* EnvValue: Value(text) or Profile(IndexMap<String, EnvValue>).           *)
(***************************************************************************)
Value(s) == [t |-> "Value", s |-> s, m |-> <<>>]
Profile(m) == [t |-> "Profile", s |-> "", m |-> m]
is_profile(value) == value.t = "Profile"

CurrentTaskPrefix == "CARGO_MAKE_CURRENT_TASK_"
CurrentTaskSuffixes == {"INITIAL_MAKEFILE", "INITIAL_MAKEFILE_DIRECTORY", "NAME"}
InitialMakefileKey == CurrentTaskPrefix \o "INITIAL_MAKEFILE"
InitialMakefileDirectoryKey == CurrentTaskPrefix \o "INITIAL_MAKEFILE_DIRECTORY"
CurrentTaskNameKey == CurrentTaskPrefix \o "NAME"

\* a mutant of starts_with_current_task: no key is taken to carry the prefix
starts_with_nothing(key) == FALSE

\* key_str.starts_with("CARGO_MAKE_CURRENT_TASK_"), over the keys of the model
starts_with_current_task(key) ==
    \E suffix \in CurrentTaskSuffixes : key = CurrentTaskPrefix \o suffix

\* a mutant of both_profile: a Profile meeting any value is merged into
either_profile(base_value, value) == is_profile(base_value) \/ is_profile(value)

\* the arm (EnvValue::Profile, EnvValue::Profile) of the match in merge_env
both_profile(base_value, value) == is_profile(base_value) /\ is_profile(value)

RECURSIVE merge_env(_, _)
RECURSIVE merge_env_extended(_, _, _)

\* the body of the loop over extended, for its entry i
merge_env_entry(merged, key, value) ==
    IF starts_with_current_task(key)
    THEN merged
    ELSE IF contains_key(merged, key)
         THEN LET base_value == get(merged, key)
                  removed == swap_remove(merged, key)
              IN  IF both_profile(base_value, value)
                  THEN insert(removed, key,
                              Profile(merge_env(base_value.m, value.m)))
                  ELSE insert(removed, key, value)
         ELSE insert(merged, key, value)

merge_env_extended(merged, extended, i) ==
    IF i > Len(extended)
    THEN merged
    ELSE merge_env_extended(merge_env_entry(merged, extended[i].k, extended[i].v),
                            extended, i + 1)

\* merged starts as the copy of base, in base's order
merge_env(base, extended) == merge_env_extended(base, extended, 1)

\* a mutant of merge_env_files: base first
merge_base_first(base, extended) == base \o extended

merge_env_files(base, extended) == extended \o base

merge_env_scripts(base, extended) == extended \o base

(***************************************************************************)
(* Task: every field optional; extend overrides field by field.            *)
(***************************************************************************)
Task_new == [description |-> None, command |-> None, private |-> None, env |-> None]

Task_extend(self, task) ==
    [description |-> IF is_some(task.description) THEN task.description ELSE self.description,
     command |-> IF is_some(task.command) THEN task.command ELSE self.command,
     private |-> IF is_some(task.private) THEN task.private ELSE self.private,
     env |-> IF is_some(task.env) THEN task.env ELSE self.env]

\* a mutant of only_markers: any env of two entries counts
two_entries(extended_env) == Len(extended_env) = 2

\* extended_env.len() == 2 && contains_key(..MAKEFILE) && contains_key(..DIRECTORY)
only_markers(extended_env) ==
    /\ Len(extended_env) = 2
    /\ contains_key(extended_env, InitialMakefileKey)
    /\ contains_key(extended_env, InitialMakefileDirectoryKey)

\* the arm Some(value) of the match on base.get(key)
merge_task(value, task, merge_task_env) ==
    LET merged_task == Task_extend(Task_extend(Task_new, value), task)
    IN  IF merge_task_env /\ is_some(value.env) /\ is_some(task.env)
           /\ only_markers(unwrap(task.env))
        THEN [merged_task EXCEPT !.env = Some(unwrap(value.env))]
        ELSE merged_task

RECURSIVE merge_tasks_extended(_, _, _, _, _)
merge_tasks_extended(merged, base, extended, merge_task_env, i) ==
    IF i > Len(extended)
    THEN merged
    ELSE LET key == extended[i].k
             task == IF contains_key(base, key)
                     THEN merge_task(get(base, key), extended[i].v, merge_task_env)
                     ELSE extended[i].v
         IN  merge_tasks_extended(insert(merged, key, task), base, extended,
                                  merge_task_env, i + 1)

merge_tasks(base, extended, merge_task_env) ==
    merge_tasks_extended(base, base, extended, merge_task_env, 1)

(***************************************************************************)
(* Paths: a directory is the sequence of its components below the current  *)
(* directory, a file is a directory and a name.                            *)
(***************************************************************************)
CurrentDirectory == "/project"

RECURSIVE DirString(_)
DirString(dir) ==
    IF dir = <<>> THEN CurrentDirectory
    ELSE DirString(SubSeq(dir, 1, Len(dir) - 1)) \o "/" \o dir[Len(dir)]

\* Path::new(base_path).join(file_name)
join(base_path, file_name) == [dir |-> base_path \o file_name.dir, name |-> file_name.name]
\* file_path.parent()
parent(file_path) == file_path.dir
\* canonicalize_or(&file_path, ..): the absolute path, as text
canonicalize_or(file_path) == DirString(file_path.dir) \o "/" \o file_path.name
NoPath == [dir |-> <<>>, name |-> ""]

(***************************************************************************)
(* types: ModifyConfig, ConfigSection, Extend, EnvFile, ExternalConfig and *)
(* Config.                                                                  *)
(***************************************************************************)
ModifyConfig(private, namespace) == [private |-> private, namespace |-> namespace]

\* ModifyConfig::is_modifications_defined
is_modifications_defined(modify_config) ==
    \/ unwrap_or(modify_config.private, FALSE)
    \/ (is_some(modify_config.namespace) /\ Len(unwrap(modify_config.namespace)) > 0)

\* ModifyConfig::get_namespace_prefix
get_namespace_prefix(modify_config) ==
    IF is_some(modify_config.namespace) /\ Len(unwrap(modify_config.namespace)) > 0
    THEN unwrap(modify_config.namespace) \o "::"
    ELSE ""

ConfigSection_new ==
    [skip_core_tasks |-> None, modify_core_tasks |-> None, min_version |-> None,
     load_script |-> None, init_task |-> None]

\* ConfigSection::extend: a field the operand sets replaces the field
ConfigSection_extend(self, extended) ==
    [skip_core_tasks |-> IF is_some(extended.skip_core_tasks)
                         THEN extended.skip_core_tasks ELSE self.skip_core_tasks,
     modify_core_tasks |-> IF is_some(extended.modify_core_tasks)
                           THEN extended.modify_core_tasks ELSE self.modify_core_tasks,
     min_version |-> IF is_some(extended.min_version)
                     THEN extended.min_version ELSE self.min_version,
     load_script |-> IF is_some(extended.load_script)
                     THEN extended.load_script ELSE self.load_script,
     init_task |-> IF is_some(extended.init_task)
                   THEN extended.init_task ELSE self.init_task]

\* ConfigSection::get_load_script
get_load_script(config) == config.load_script

ExtendOptions(path, optional) == [path |-> path, optional |-> optional]
Extend_Path(base_file) == [t |-> "Path", path |-> base_file, optional |-> None, list |-> <<>>]
Extend_Options(o) == [t |-> "Options", path |-> o.path, optional |-> o.optional, list |-> <<>>]
Extend_List(l) == [t |-> "List", path |-> NoPath, optional |-> None, list |-> l]

EnvFile_Path(path) == [t |-> "Path", path |-> path, base_path |-> None]
EnvFile_Info(path, base_path) == [t |-> "Info", path |-> path, base_path |-> base_path]

ExternalConfig_new ==
    [extend |-> None, config |-> None, env_files |-> None, env |-> None,
     env_scripts |-> None, tasks |-> None]

Task(description, command, env) ==
    [description |-> description, command |-> command, private |-> None, env |-> env]

\* Task::apply: the modification of one core task
Task_apply(task, modify_config) ==
    IF unwrap_or(modify_config.private, FALSE)
    THEN [task EXCEPT !.private = Some(TRUE)]
    ELSE task

\* Config::apply: the core tasks take the namespace and the private flag
Config_apply(base_config, modify_config) ==
    LET prefix == get_namespace_prefix(modify_config)
    IN  [base_config EXCEPT !.tasks =
            [i \in 1..Len(base_config.tasks) |->
                [k |-> prefix \o base_config.tasks[i].k,
                 v |-> Task_apply(base_config.tasks[i].v, modify_config)]]]

(***************************************************************************)
(* makefiles: the bundled descriptors, as decoded.  STABLE is BASE and the *)
(* core tasks; BETA holds the experimental tasks.                          *)
(***************************************************************************)
makefiles_BASE ==
    [config |-> [ConfigSection_new EXCEPT !.init_task = Some("init")],
     env_files |-> <<>>,
     env |-> <<[k |-> "X", v |-> Value("1")]>>,
     env_scripts |-> <<>>,
     tasks |-> <<[k |-> "init", v |-> Task(None, Some("base-init"), None)]>>]

makefiles_STABLE ==
    [makefiles_BASE EXCEPT
        !.env = @ \o <<[k |-> "CARGO_MAKE_CORE", v |-> Value("stable")]>>,
        !.tasks = @ \o
            <<[k |-> "build",
               v |-> Task(Some("core build"), Some("cargo build"),
                          Some(<<[k |-> "FOO", v |-> Value("1")]>>))],
              [k |-> "test", v |-> Task(None, Some("cargo test"), None)]>>]

makefiles_BETA ==
    [config |-> ConfigSection_new,
     env_files |-> <<>>,
     env |-> <<>>,
     env_scripts |-> <<>>,
     tasks |-> <<[k |-> "test", v |-> Task(Some("beta test"), None, None)],
                 [k |-> "bench", v |-> Task(None, Some("cargo bench"), None)]>>]

\* version::is_newer_found: the running version is 1.0.0
is_newer_found(min_version) == min_version \in {"99.0.0", "98.0.0"}

(***************************************************************************)
(* Location stamping, the load script, the combinators.                    *)
(***************************************************************************)
\* a mutant of stamp_env_file: the descriptor's directory replaces a declared base_path
stamp_over_declared(env_file, base_directory) ==
    EnvFile_Info(env_file.path, Some(base_directory))

\* the stamp of one env file: a bare path becomes a record, a record without a
\* base_path takes the descriptor's directory
stamp_env_file(env_file, base_directory) ==
    IF env_file.t = "Path"
    THEN EnvFile_Info(env_file.path, Some(base_directory))
    ELSE IF is_none(env_file.base_path)
         THEN EnvFile_Info(env_file.path, Some(base_directory))
         ELSE env_file

\* the stamp of one task: its env, made if absent, takes the two markers
stamp_task(task, file_path_string, base_directory) ==
    LET env == IF is_some(task.env) THEN unwrap(task.env) ELSE IndexMap_new
    IN  [task EXCEPT !.env =
            Some(insert(insert(env, InitialMakefileKey, Value(file_path_string)),
                        InitialMakefileDirectoryKey, Value(base_directory)))]

add_file_location_info(external_config, file_path) ==
    LET file_path_string == canonicalize_or(file_path)
        base_directory == DirString(parent(file_path))
    IN  [external_config EXCEPT
            !.env_files =
                IF is_some(@)
                THEN Some([i \in 1..Len(unwrap(@)) |->
                              stamp_env_file(unwrap(@)[i], base_directory)])
                ELSE None,
            !.tasks =
                IF is_some(@)
                THEN Some([i \in 1..Len(unwrap(@)) |->
                              [k |-> unwrap(@)[i].k,
                               v |-> stamp_task(unwrap(@)[i].v, file_path_string,
                                                base_directory)]])
                ELSE None]

\* a mutant of run_load_script: the script is never invoked
run_no_load_script(external_config) == FALSE

\* run_load_script: whether the script hook is invoked
run_load_script(external_config) ==
    /\ is_some(external_config.config)
    /\ is_some(get_load_script(unwrap(external_config.config)))

\* a mutant of merge_external_configs_tasks: the parent's task wins
merge_parent_tasks_last(config_tasks, parent_tasks) ==
    merge_tasks(config_tasks, parent_tasks, FALSE)

\* the tasks of merge_external_configs
merge_external_configs_tasks(config_tasks, parent_tasks) ==
    merge_tasks(parent_tasks, config_tasks, FALSE)

merge_external_configs(config, parent_config) ==
    LET all_env_files == merge_env_files(unwrap_or(parent_config.env_files, <<>>),
                                         unwrap_or(config.env_files, <<>>))
        all_env == merge_env(unwrap_or(parent_config.env, IndexMap_new),
                             unwrap_or(config.env, IndexMap_new))
        all_env_scripts == merge_env_scripts(unwrap_or(parent_config.env_scripts, <<>>),
                                             unwrap_or(config.env_scripts, <<>>))
        all_tasks == merge_external_configs_tasks(unwrap_or(config.tasks, IndexMap_new),
                                                  unwrap_or(parent_config.tasks, IndexMap_new))
        parent_section == IF is_some(parent_config.config)
                          THEN ConfigSection_extend(ConfigSection_new,
                                                    unwrap(parent_config.config))
                          ELSE ConfigSection_new
        config_section == IF is_some(config.config)
                          THEN ConfigSection_extend(parent_section, unwrap(config.config))
                          ELSE parent_section
    IN  [extend |-> None,
         config |-> Some(config_section),
         env_files |-> Some(all_env_files),
         env |-> Some(all_env),
         env_scripts |-> Some(all_env_scripts),
         tasks |-> Some(all_tasks)]

(***************************************************************************)
(* The command line's env pairs: an entry is its sequence of characters.   *)
(***************************************************************************)
RECURSIVE split(_, _)
\* env_pair.split('='): the parts between the separators, as character sequences
split(env_pair, sep) ==
    IF \A i \in 1..Len(env_pair) : env_pair[i] /= sep
    THEN <<env_pair>>
    ELSE LET i == CHOOSE j \in 1..Len(env_pair) :
                     env_pair[j] = sep /\ \A h \in 1..(j - 1) : env_pair[h] /= sep
         IN  <<SubSeq(env_pair, 1, i - 1)>>
             \o split(SubSeq(env_pair, i + 1, Len(env_pair)), sep)

RECURSIVE to_string(_)
to_string(chars) == IF chars = <<>> THEN "" ELSE chars[1] \o to_string(Tail(chars))

\* a mutant of is_env_pair: an entry of two parts or more is taken
at_least_two_parts(env_part) == Len(env_part) >= 2

\* env_part.len() == 2
is_env_pair(env_part) == Len(env_part) = 2

RECURSIVE cli_env_of(_, _, _)
\* the loop over the env pairs that fills cli_env
cli_env_of(cli_env, values, i) ==
    IF i > Len(values)
    THEN cli_env
    ELSE LET env_part == split(values[i], "=")
         IN  cli_env_of(IF is_env_pair(env_part)
                        THEN insert(cli_env, to_string(env_part[1]),
                                    Value(to_string(env_part[2])))
                        ELSE cli_env,
                        values, i + 1)

\* a mutant of merge_cli_env: the command line's values give way
merge_cli_env_under(all_env, cli_env) == merge_env(cli_env, all_env)

\* merge_env(&mut all_env, &mut cli_env)
merge_cli_env(all_env, cli_env) == merge_env(all_env, cli_env)

merge_base_config_and_external_config(base_config, external_config, env_map, late_merge) ==
    LET external_tasks == unwrap_or(external_config.tasks, IndexMap_new)
        env_files == unwrap_or(external_config.env_files, <<>>)
        env_scripts == unwrap_or(external_config.env_scripts, <<>>)
        external_env == unwrap_or(external_config.env, IndexMap_new)
        env == merge_env(base_config.env, external_env)
        all_env == IF is_some(env_map)
                   THEN merge_cli_env(env, cli_env_of(IndexMap_new, unwrap(env_map), 1))
                   ELSE env
        all_tasks == merge_tasks(base_config.tasks, external_tasks, late_merge)
        config_section ==
            ConfigSection_extend(base_config.config,
                                 unwrap_or(external_config.config, ConfigSection_new))
    IN  [config |-> config_section,
         env_files |-> env_files,
         env |-> all_env,
         env_scripts |-> env_scripts,
         tasks |-> all_tasks]

\* a mutant of internal_descriptors: the stable tier is loaded whatever the flag says
stable_tier_always(stable, experimental, modify_config) ==
    LET base_config == IF experimental
                       THEN [makefiles_STABLE EXCEPT
                                !.tasks = merge_tasks(@, makefiles_BETA.tasks, FALSE)]
                       ELSE makefiles_STABLE
    IN  IF is_some(modify_config)
        THEN Config_apply(base_config, unwrap(modify_config))
        ELSE base_config

\* the descriptor load_internal_descriptors returns
internal_descriptors(stable, experimental, modify_config) ==
    LET base_descriptor == IF stable THEN makefiles_STABLE ELSE makefiles_BASE
        base_config == IF experimental
                       THEN [base_descriptor EXCEPT
                                !.tasks = merge_tasks(@, makefiles_BETA.tasks, FALSE)]
                       ELSE base_descriptor
    IN  IF is_some(modify_config)
        THEN Config_apply(base_config, unwrap(modify_config))
        ELSE base_config

(***************************************************************************)
(* load, load_descriptors and load_external_descriptor as a machine.       *)
(***************************************************************************)
file_name == [dir |-> <<>>, name |-> "Makefile.toml"]

EmptyConfig ==
    [config |-> ConfigSection_new, env_files |-> <<>>, env |-> <<>>,
     env_scripts |-> <<>>, tasks |-> <<>>]

NoRet == [st |-> "none", cfg |-> ExternalConfig_new, err |-> ""]
Ok(cfg) == [st |-> "Ok", cfg |-> cfg, err |-> ""]
Err(e) == [st |-> "Err", cfg |-> ExternalConfig_new, err |-> e]
NoResult == [st |-> "none", config |-> EmptyConfig, err |-> ""]

Event(e, path, val) == [e |-> e, path |-> path, val |-> val]

Frame(base_path, name, force, set_env) ==
    [base_path |-> base_path, file_name |-> name, force |-> force, set_env |-> set_env,
     stage |-> "enter", file_path |-> join(base_path, name),
     file_config |-> ExternalConfig_new, i |-> 0,
     ordered_list_config |-> ExternalConfig_new]

top == stack[Len(stack)]
Running == pc \in {"external", "workspace"} /\ stack /= <<>>
Pop == SubSeq(stack, 1, Len(stack) - 1)
SetTop(frame) == [stack EXCEPT ![Len(stack)] = frame]
\* file_path.exists() && file_path.is_file()
exists(file_path) == file_path \in DOMAIN input.fs
\* io::read_text_file
read_text_file(file_path) == input.fs[file_path]

\* a mutant of check_makefile_min_version: no descriptor fails the gate
check_nothing(external_descriptor) == None

\* check_makefile_min_version: the version it fails with, or None
check_makefile_min_version(external_descriptor) ==
    IF ~external_descriptor.syntax_ok
    THEN None
    ELSE LET descriptor_config == external_descriptor.raw.config
             min_version == IF is_some(descriptor_config)
                            THEN unwrap(descriptor_config).min_version
                            ELSE None
         IN  IF is_some(min_version) /\ is_newer_found(unwrap(min_version))
             THEN min_version
             ELSE None

\* the writes of load_internal_descriptors to the namespace variables
namespace_writes(modify_config) ==
    <<Event("set_namespace", NoPath, ""), Event("set_namespace_prefix", NoPath, "")>>
    \o (IF is_some(modify_config) /\ is_some(unwrap(modify_config).namespace)
        THEN <<Event("set_namespace", NoPath, unwrap(unwrap(modify_config).namespace)),
               Event("set_namespace_prefix", NoPath,
                     get_namespace_prefix(unwrap(modify_config)))>>
        ELSE <<>>)

\* a mutant of namespace_vars: the variables are written only for a namespace
namespace_not_reset(vars_, modify_config) ==
    IF is_some(modify_config) /\ is_some(unwrap(modify_config).namespace)
    THEN [vars_ EXCEPT
            !.CARGO_MAKE_CORE_TASK_NAMESPACE = Some(unwrap(unwrap(modify_config).namespace)),
            !.CARGO_MAKE_CORE_TASK_NAMESPACE_PREFIX =
                Some(get_namespace_prefix(unwrap(modify_config)))]
    ELSE vars_

\* the namespace variables after load_internal_descriptors
namespace_vars(vars_, modify_config) ==
    IF is_some(modify_config) /\ is_some(unwrap(modify_config).namespace)
    THEN [vars_ EXCEPT
            !.CARGO_MAKE_CORE_TASK_NAMESPACE = Some(unwrap(unwrap(modify_config).namespace)),
            !.CARGO_MAKE_CORE_TASK_NAMESPACE_PREFIX =
                Some(get_namespace_prefix(unwrap(modify_config)))]
    ELSE [vars_ EXCEPT
            !.CARGO_MAKE_CORE_TASK_NAMESPACE = Some(""),
            !.CARGO_MAKE_CORE_TASK_NAMESPACE_PREFIX = Some("")]

BaselineEvent(stable, experimental) ==
    Event("baseline", NoPath,
          (IF stable THEN "stable" ELSE "base") \o (IF experimental THEN "+beta" ELSE ""))

\* load_descriptors up to its call of load_external_descriptor: the first pass is
\* (false, false, None), the second (true, experimental, Some(modify_config))
LoadDescriptors ==
    /\ pc \in {"load", "reload"}
    /\ LET stable == pc = "reload"
           experimental == pc = "reload" /\ input.experimental
           modify_core_tasks == IF pc = "reload" THEN load_config.config.modify_core_tasks
                                ELSE None
       IN  /\ ld_default_config' = internal_descriptors(stable, experimental, modify_core_tasks)
           /\ envvars' = namespace_vars(envvars, modify_core_tasks)
           /\ log' = log \o <<BaselineEvent(stable, experimental)>>
                         \o namespace_writes(modify_core_tasks)
    /\ pass' = IF pc = "load" THEN 1 ELSE 2
    /\ stack' = <<Frame(<<>>, file_name, input.force, TRUE)>>
    /\ ret' = NoRet
    /\ pc' = "external"
    /\ UNCHANGED <<input, ld_external_config, load_config, result, pure>>

\* load_external_descriptor, the file absent and force set: the panic
DescriptorMissing ==
    /\ Running /\ top.stage = "enter"
    /\ ~exists(top.file_path) /\ top.force
    /\ pc' = "done"
    /\ result' = [st |-> "Panic", config |-> EmptyConfig, err |-> "DescriptorMissing"]
    /\ stack' = <<>>
    /\ log' = Append(log, Event("missing", top.file_path, ""))
    /\ UNCHANGED <<input, pass, ret, ld_default_config, ld_external_config, load_config, envvars, pure>>

\* load_external_descriptor, the file absent and force unset: Ok(ExternalConfig::new())
DescriptorSkipped ==
    /\ Running /\ top.stage = "enter"
    /\ ~exists(top.file_path) /\ ~top.force
    /\ stack' = Pop
    /\ ret' = Ok(ExternalConfig_new)
    /\ log' = Append(log, Event("skipped", top.file_path, ""))
    /\ UNCHANGED <<input, pc, pass, ld_default_config, ld_external_config, load_config, result,
                   envvars, pure>>

SetMakefilePath ==
    IF top.set_env
    THEN envvars' = [envvars EXCEPT
                        !.CARGO_MAKE_MAKEFILE_PATH = Some(canonicalize_or(top.file_path))]
    ELSE UNCHANGED envvars

\* load_external_descriptor, the version gate failing: Err(min_version)
VersionTooOld ==
    /\ Running /\ top.stage = "enter"
    /\ exists(top.file_path)
    /\ is_some(check_makefile_min_version(read_text_file(top.file_path)))
    /\ SetMakefilePath
    /\ stack' = Pop
    /\ ret' = Err(unwrap(check_makefile_min_version(read_text_file(top.file_path))))
    /\ log' = log \o <<Event("read", top.file_path, ""),
                       Event("gate_failed", top.file_path, "")>>
    /\ UNCHANGED <<input, pc, pass, ld_default_config, ld_external_config, load_config, result, pure>>

\* load_external_descriptor, the decoder failing: the panic
DescriptorMalformed ==
    /\ Running /\ top.stage = "enter"
    /\ exists(top.file_path)
    /\ is_none(check_makefile_min_version(read_text_file(top.file_path)))
    /\ ~read_text_file(top.file_path).syntax_ok
    /\ SetMakefilePath
    /\ pc' = "done"
    /\ result' = [st |-> "Panic", config |-> EmptyConfig, err |-> "DescriptorMalformed"]
    /\ stack' = <<>>
    /\ log' = log \o <<Event("read", top.file_path, ""),
                       Event("gate_passed", top.file_path, "")>>
    /\ UNCHANGED <<input, pass, ret, ld_default_config, ld_external_config, load_config, pure>>

\* load_external_descriptor from the read to run_load_script
DescriptorLoaded ==
    /\ Running /\ top.stage = "enter"
    /\ exists(top.file_path)
    /\ is_none(check_makefile_min_version(read_text_file(top.file_path)))
    /\ read_text_file(top.file_path).syntax_ok
    /\ SetMakefilePath
    /\ LET file_config == add_file_location_info(read_text_file(top.file_path).raw,
                                                 top.file_path)
       IN  /\ stack' = SetTop([top EXCEPT !.stage = "extend", !.file_config = file_config])
           /\ log' = log \o <<Event("read", top.file_path, ""),
                              Event("gate_passed", top.file_path, ""),
                              Event("stamp", top.file_path, "")>>
                         \o (IF run_load_script(file_config)
                             THEN <<Event("script", top.file_path,
                                          unwrap(get_load_script(unwrap(file_config.config))))>>
                             ELSE <<>>)
    /\ UNCHANGED <<input, pc, pass, ret, ld_default_config, ld_external_config, load_config, result,
                   pure>>

KeepLoad == UNCHANGED <<input, pc, pass, ld_default_config, ld_external_config, load_config,
                        result, envvars, pure>>

Return(value) == stack' = Pop /\ ret' = value

\* a mutant of extend_force: a missing ancestor is never an error
never_force(extend_struct) == FALSE

\* load_descriptor_extended_makefiles: the force it resolves a Path or Options with
extend_force(extend_struct) ==
    IF extend_struct.t = "Path" THEN TRUE
    ELSE ~unwrap_or(extend_struct.optional, FALSE)

\* load_external_descriptor, no extend declared: Ok(file_config)
NoExtend ==
    /\ Running /\ top.stage = "extend"
    /\ is_none(top.file_config.extend)
    /\ Return(Ok(top.file_config))
    /\ log' = Append(log, Event("return", top.file_path, ""))
    /\ KeepLoad

\* load_descriptor_extended_makefiles, Extend::Path and Extend::Options
ExtendOne ==
    /\ Running /\ top.stage = "extend"
    /\ is_some(top.file_config.extend)
    /\ LET extend_struct == unwrap(top.file_config.extend)
           parent_path == parent(top.file_path)
       IN  /\ extend_struct.t \in {"Path", "Options"}
           /\ stack' = Append(SetTop([top EXCEPT !.stage = "parent"]),
                              Frame(parent_path, extend_struct.path,
                                    extend_force(extend_struct), FALSE))
           /\ log' = Append(log, Event("resolve", join(parent_path, extend_struct.path),
                                       canonicalize_or(top.file_path)))
    /\ ret' = NoRet
    /\ KeepLoad

\* load_descriptor_extended_makefiles, Extend::List: the empty ordered_list_config
ExtendList ==
    /\ Running /\ top.stage = "extend"
    /\ is_some(top.file_config.extend)
    /\ unwrap(top.file_config.extend).t = "List"
    /\ stack' = SetTop([top EXCEPT !.stage = "list", !.i = 1,
                                   !.ordered_list_config = ExternalConfig_new])
    /\ UNCHANGED <<ret, log>>
    /\ KeepLoad

\* the loop over the list: the entry i is resolved as Extend::Options
ListEntry ==
    /\ Running /\ top.stage = "list"
    /\ LET extend_list == unwrap(top.file_config.extend).list
           parent_path == parent(top.file_path)
       IN  /\ top.i <= Len(extend_list)
           /\ stack' = Append(SetTop([top EXCEPT !.stage = "entry"]),
                              Frame(parent_path, extend_list[top.i].path,
                                    extend_force(Extend_Options(extend_list[top.i])), FALSE))
           /\ log' = Append(log, Event("resolve", join(parent_path, extend_list[top.i].path),
                                       canonicalize_or(top.file_path)))
    /\ ret' = NoRet
    /\ KeepLoad

\* a mutant of fold_entry: the earlier entries win
fold_entry_under(entry_config, ordered_list_config) ==
    merge_external_configs(ordered_list_config, entry_config)

\* ordered_list_config = merge_external_configs(entry_config, ordered_list_config)
fold_entry(entry_config, ordered_list_config) ==
    merge_external_configs(entry_config, ordered_list_config)

\* the entry's configuration is merged over ordered_list_config
ListEntryMerged ==
    /\ Running /\ top.stage = "entry" /\ ret.st = "Ok"
    /\ stack' = SetTop([top EXCEPT
                           !.stage = "list", !.i = @ + 1,
                           !.ordered_list_config = fold_entry(ret.cfg, @)])
    /\ ret' = NoRet
    /\ UNCHANGED log
    /\ KeepLoad

\* the list is done: Ok(merge_external_configs(file_config, ordered_list_config))
ListDone ==
    /\ Running /\ top.stage = "list"
    /\ top.i > Len(unwrap(top.file_config.extend).list)
    /\ Return(Ok(merge_external_configs(top.file_config, top.ordered_list_config)))
    /\ log' = Append(log, Event("return", top.file_path, ""))
    /\ KeepLoad

\* the ancestor is resolved: Ok(merge_external_configs(file_config, base_file_config))
ParentMerged ==
    /\ Running /\ top.stage = "parent" /\ ret.st = "Ok"
    /\ Return(Ok(merge_external_configs(top.file_config, ret.cfg)))
    /\ log' = Append(log, Event("return", top.file_path, ""))
    /\ KeepLoad

\* the ? of load_descriptor_extended_makefiles and load_external_descriptor
PropagateErr ==
    /\ Running /\ top.stage \in {"parent", "entry"} /\ ret.st = "Err"
    /\ Return(ret)
    /\ UNCHANGED log
    /\ KeepLoad

\* the ? of load_descriptors and of load: load returns the Err
LoadFailed ==
    /\ pc \in {"external", "workspace"} /\ stack = <<>> /\ ret.st = "Err"
    /\ pc' = "done"
    /\ result' = [st |-> "Err", config |-> EmptyConfig, err |-> ret.err]
    /\ UNCHANGED <<input, pass, stack, ret, ld_default_config, ld_external_config,
                   load_config, envvars, log, pure>>

\* load_descriptors: CARGO_MAKE_WORKSPACE_MAKEFILE is set, its descriptor is resolved
WorkspaceResolve ==
    /\ pc = "external" /\ stack = <<>> /\ ret.st = "Ok"
    /\ is_some(envvars.CARGO_MAKE_WORKSPACE_MAKEFILE)
    /\ LET pathbuf == unwrap(envvars.CARGO_MAKE_WORKSPACE_MAKEFILE)
           workspace_file_name == [dir |-> <<>>, name |-> pathbuf.name]
           directory == pathbuf.dir
       IN  /\ stack' = <<Frame(directory, workspace_file_name, FALSE, FALSE)>>
           /\ log' = Append(log, Event("resolve", pathbuf, ""))
    /\ ld_external_config' = ret.cfg
    /\ ret' = NoRet
    /\ pc' = "workspace"
    /\ UNCHANGED <<input, pass, ld_default_config, load_config, result, envvars, pure>>

\* load_descriptors: CARGO_MAKE_WORKSPACE_MAKEFILE is not set
WorkspaceNone ==
    /\ pc = "external" /\ stack = <<>> /\ ret.st = "Ok"
    /\ is_none(envvars.CARGO_MAKE_WORKSPACE_MAKEFILE)
    /\ ld_external_config' = ret.cfg
    /\ ret' = NoRet
    /\ pc' = "merge"
    /\ UNCHANGED <<input, pass, stack, ld_default_config, load_config, result, envvars,
                   log, pure>>

\* load_descriptors: merge_external_configs(external_config, workspace_config)
WorkspaceMerged ==
    /\ pc = "workspace" /\ stack = <<>> /\ ret.st = "Ok"
    /\ ld_external_config' = merge_external_configs(ld_external_config, ret.cfg)
    /\ ret' = NoRet
    /\ pc' = "merge"
    /\ UNCHANGED <<input, pass, stack, ld_default_config, load_config, result, envvars,
                   log, pure>>

\* load_descriptors: the merge with default_config, late_merge false; the second
\* pass's result is load's
DescriptorsMerged ==
    /\ pc = "merge"
    /\ load_config' = merge_base_config_and_external_config(
                          ld_default_config, ld_external_config, input.env_map, FALSE)
    /\ IF pass = 1
       THEN pc' = "decide" /\ UNCHANGED result
       ELSE /\ pc' = "done"
            /\ result' = [st |-> "Ok", config |-> load_config', err |-> ""]
    /\ UNCHANGED <<input, pass, stack, ret, ld_default_config, ld_external_config, envvars,
                   log, pure>>

ReturnConfig ==
    /\ pc' = "done"
    /\ result' = [st |-> "Ok", config |-> load_config, err |-> ""]
    /\ UNCHANGED <<input, pass, stack, ret, ld_default_config, ld_external_config,
                   load_config, envvars, log, pure>>

\* load: skip_core_tasks is set
SkipCoreTasks ==
    /\ pc = "decide"
    /\ unwrap_or(load_config.config.skip_core_tasks, FALSE)
    /\ ReturnConfig

\* load: modify_core_tasks is Some and defines modifications: everything is reloaded
Reload ==
    /\ pc = "decide"
    /\ ~unwrap_or(load_config.config.skip_core_tasks, FALSE)
    /\ is_some(load_config.config.modify_core_tasks)
    /\ is_modifications_defined(unwrap(load_config.config.modify_core_tasks))
    /\ pc' = "reload"
    /\ UNCHANGED <<input, pass, stack, ret, ld_default_config, ld_external_config,
                   load_config, result, envvars, log, pure>>

\* load: modify_core_tasks is Some and defines no modification: nothing more is done
ModifyUndefined ==
    /\ pc = "decide"
    /\ ~unwrap_or(load_config.config.skip_core_tasks, FALSE)
    /\ is_some(load_config.config.modify_core_tasks)
    /\ ~is_modifications_defined(unwrap(load_config.config.modify_core_tasks))
    /\ ReturnConfig

\* the ExternalConfig load builds of its config
as_external_config(c) ==
    [extend |-> None, config |-> Some(c.config), env_files |-> Some(c.env_files),
     env |-> Some(c.env), env_scripts |-> Some(c.env_scripts), tasks |-> Some(c.tasks)]

\* load: modify_core_tasks is None: the core tasks are loaded and merged, late_merge true
LateMerge ==
    /\ pc = "decide"
    /\ ~unwrap_or(load_config.config.skip_core_tasks, FALSE)
    /\ is_none(load_config.config.modify_core_tasks)
    /\ LET core_config == internal_descriptors(TRUE, input.experimental, None)
       IN  /\ load_config' = merge_base_config_and_external_config(
                                 core_config, as_external_config(load_config),
                                 input.env_map, TRUE)
           /\ envvars' = namespace_vars(envvars, None)
           /\ log' = log \o <<BaselineEvent(TRUE, input.experimental)>>
                         \o namespace_writes(None)
    /\ pc' = "done"
    /\ result' = [st |-> "Ok", config |-> load_config', err |-> ""]
    /\ UNCHANGED <<input, pass, stack, ret, ld_default_config, ld_external_config, pure>>

(***************************************************************************)
(* The runs checked: the files on disk, the arguments of load and the      *)
(* process env it starts in.                                               *)
(***************************************************************************)
MaxExtendList == 2
MaxEnvMap == 2

RECURSIVE SeqsUpTo(_, _)
\* the sequences over S of length at most n
SeqsUpTo(S, n) ==
    IF n = 0 THEN {<<>>}
    ELSE LET shorter == SeqsUpTo(S, n - 1)
         IN  shorter \cup {Append(q, x) : q \in shorter, x \in S}

P_top == file_name
P_a == [dir |-> <<>>, name |-> "a.toml"]
P_b == [dir |-> <<"sub">>, name |-> "b.toml"]
P_c == [dir |-> <<"sub">>, name |-> "c.toml"]
P_ws == [dir |-> <<"ws">>, name |-> "Makefile.toml"]
P_missing == [dir |-> <<>>, name |-> "missing.toml"]
AllPaths == {P_top, P_a, P_b, P_c, P_ws}

Text(raw) == [syntax_ok |-> TRUE, raw |-> raw]
Malformed == [syntax_ok |-> FALSE, raw |-> ExternalConfig_new]
Section(skip, modify, min_version, load_script) ==
    [ConfigSection_new EXCEPT !.skip_core_tasks = skip, !.modify_core_tasks = modify,
                              !.min_version = min_version, !.load_script = load_script]
E(k, v) == [k |-> k, v |-> v]

TopConfigs ==
    {None,
     Some(Section(Some(TRUE), None, None, None)),
     Some(Section(Some(FALSE), None, Some("0.1.0"), Some("top-load"))),
     Some(Section(None, Some(ModifyConfig(None, None)), None, None)),
     Some(Section(None, Some(ModifyConfig(Some(FALSE), Some(""))), None, Some("top-load"))),
     Some(Section(None, Some(ModifyConfig(None, Some("core"))), None, Some("top-load"))),
     Some(Section(None, Some(ModifyConfig(Some(TRUE), None)), None, None)),
     Some(Section(Some(TRUE), Some(ModifyConfig(Some(TRUE), Some("core"))), None, None)),
     Some(Section(None, None, Some("99.0.0"), Some("top-load")))}

TopEnvs ==
    {None,
     Some(<<E("X", Value("2")), E(CurrentTaskNameKey, Value("top")),
            E("P", Profile(<<E("K", Value("top"))>>))>>)}

Top(extend, section, env) ==
    Text([extend |-> extend, config |-> section,
          env_files |-> Some(<<EnvFile_Path("top.env")>>),
          env |-> env,
          env_scripts |-> Some(<<"top-script">>),
          tasks |-> Some(<<E("X", Task(None, Some("top-x"), None)),
                           E("build", Task(Some("my build"), None, None))>>)])

A(section) ==
    Text([extend |-> None, config |-> section,
          env_files |-> Some(<<EnvFile_Info("a.env", None)>>),
          env |-> Some(<<E("X", Value("a")), E("A", Value("a")),
                         E("P", Profile(<<E("J", Value("a"))>>))>>),
          env_scripts |-> Some(<<"a-script">>),
          tasks |-> Some(<<E("X", Task(Some("a-desc"), Some("a-x"),
                                      Some(<<E("FOO", Value("a"))>>))),
                           E("init", Task(Some("a init"), None, None))>>)])

A_files ==
    {None,
     Some(Malformed),
     Some(A(Some(Section(None, None, None, Some("a-load"))))),
     Some(A(Some(Section(None, None, Some("99.0.0"), Some("a-load")))))}

A_directives ==
    {Some(A(Some(Section(None, None, None, Some("a-load"))))),
     Some(A(Some(Section(Some(TRUE), None, None, None)))),
     Some(A(Some(Section(None, Some(ModifyConfig(None, Some("ns"))), None,
                         Some("a-load")))))}

B(extend, section) ==
    Text([extend |-> extend, config |-> section,
          env_files |-> None,
          env |-> Some(<<E("B", Value("b")), E("X", Value("b"))>>),
          env_scripts |-> None,
          tasks |-> Some(<<E("X", Task(Some("b-desc"), None, None))>>)])

B_files ==
    {None,
     Some(B(None, None)),
     Some(B(Some(Extend_Path([dir |-> <<>>, name |-> "c.toml"])),
            Some(Section(None, None, None, Some("b-load"))))),
     Some(B(None, Some(Section(None, None, Some("98.0.0"), Some("b-load")))))}

C_text ==
    Text([extend |-> None, config |-> None,
          env_files |-> Some(<<EnvFile_Info("c.env", Some("/elsewhere")),
                               EnvFile_Path("c2.env")>>),
          env |-> None,
          env_scripts |-> Some(<<"c-script">>),
          tasks |-> Some(<<E("C", Task(None, Some("c"), Some(<<>>)))>>)])

C_files == {None, Some(C_text)}

W(section) ==
    Text([extend |-> None, config |-> section,
          env_files |-> Some(<<EnvFile_Path("ws.env")>>),
          env |-> Some(<<E("W", Value("ws")), E("X", Value("ws"))>>),
          env_scripts |-> None,
          tasks |-> Some(<<E("X", Task(Some("ws-desc"), Some("ws-x"), None)),
                           E("W", Task(None, Some("ws"), None))>>)])

\* the workspace descriptor on disk, and whether the variable names it
Workspaces ==
    {[file |-> None, var |-> None],
     [file |-> None, var |-> Some(P_ws)],
     [file |-> Some(W(Some(Section(None, None, None, Some("ws-load"))))), var |-> Some(P_ws)],
     [file |-> Some(W(Some(Section(None, None, Some("98.0.0"), None)))), var |-> Some(P_ws)]}

ExtendEntries ==
    {ExtendOptions(P_a, None), ExtendOptions(P_a, Some(TRUE)),
     ExtendOptions(P_b, Some(FALSE)), ExtendOptions(P_missing, Some(TRUE))}

SingleExtends ==
    {None, Some(Extend_Path(P_a)), Some(Extend_Path(P_missing)),
     Some(Extend_Options(ExtendOptions(P_missing, Some(TRUE)))),
     Some(Extend_Options(ExtendOptions(P_missing, Some(FALSE)))),
     Some(Extend_Options(ExtendOptions(P_missing, None))),
     Some(Extend_Options(ExtendOptions(P_b, Some(TRUE))))}

ListExtends == {Some(Extend_List(l)) : l \in SeqsUpTo(ExtendEntries, MaxExtendList)}

EnvPairs ==
    {<<"X", "=", "3">>, <<"X", "=", "4">>, <<"N", "O">>, <<"A", "=", "B", "=", "C">>,
     <<"=">>, <<"CARGO_MAKE_CURRENT_TASK_NAME", "=", "c">>}

EnvMaps == {None} \cup {Some(l) : l \in SeqsUpTo(EnvPairs, MaxEnvMap)}

FS(top_, a, b, c, ws) ==
    LET all == [p \in AllPaths |->
                   CASE p = P_top -> top_ [] p = P_a -> a [] p = P_b -> b
                     [] p = P_c -> c [] OTHER -> ws]
    IN  [p \in {q \in AllPaths : is_some(all[q])} |-> unwrap(all[p])]

Input(fs, workspace, env_map, experimental, force, stale) ==
    [fs |-> fs, workspace |-> workspace, env_map |-> env_map,
     experimental |-> experimental, force |-> force, stale |-> stale]

PlainA == Some(A(Some(Section(None, None, None, Some("a-load")))))

\* the shapes of the extends chain
ChainInputs ==
    {Input(FS(Some(Top(extend, None, env)), a, b, c, None), None, None, FALSE, TRUE, FALSE) :
        extend \in SingleExtends \cup ListExtends, env \in TopEnvs,
        a \in A_files, b \in B_files, c \in C_files}

\* the top descriptor absent or malformed
TopInputs ==
    {Input(FS(top_, PlainA, None, None, None), None, None, FALSE, force, FALSE) :
        top_ \in {None, Some(Malformed)}, force \in BOOLEAN}

\* the directives of the config section, the workspace layer, the tiers
DirectiveInputs ==
    {Input(FS(Some(Top(extend, section, None)), a, None, None, w.file), w.var,
           Some(<<<<"X", "=", "3">>>>), experimental, TRUE, stale) :
        extend \in {None, Some(Extend_Path(P_a)),
                    Some(Extend_List(<<ExtendOptions(P_a, None), ExtendOptions(P_a, None)>>))},
        section \in TopConfigs, a \in A_directives, w \in Workspaces,
        experimental \in BOOLEAN, stale \in BOOLEAN}

\* the env pairs of the command line
EnvMapInputs ==
    {Input(FS(Some(Top(Some(Extend_Path(P_a)), section, env)), PlainA, None, None, None),
           None, env_map, TRUE, TRUE, FALSE) :
        env_map \in EnvMaps, env \in TopEnvs,
        section \in {None, Some(Section(Some(TRUE), None, None, None)),
                     Some(Section(None, Some(ModifyConfig(None, None)), None, None)),
                     Some(Section(None, Some(ModifyConfig(None, Some("core"))), None, None))}}

Inputs == ChainInputs \cup TopInputs \cup DirectiveInputs \cup EnvMapInputs

NoPure == [op |-> "none"]

Init ==
    /\ input \in Inputs
    /\ pc = "load"
    /\ pass = 0
    /\ stack = <<>>
    /\ ret = NoRet
    /\ ld_default_config = EmptyConfig
    /\ ld_external_config = ExternalConfig_new
    /\ load_config = EmptyConfig
    /\ result = NoResult
    /\ envvars = [CARGO_MAKE_MAKEFILE_PATH |-> None,
                  CARGO_MAKE_CORE_TASK_NAMESPACE |-> IF input.stale THEN Some("stale") ELSE None,
                  CARGO_MAKE_CORE_TASK_NAMESPACE_PREFIX |->
                      IF input.stale THEN Some("stale::") ELSE None,
                  CARGO_MAKE_WORKSPACE_MAKEFILE |-> input.workspace]
    /\ log = <<>>
    /\ pure = NoPure

Next ==
    \/ LoadDescriptors
    \/ DescriptorMissing
    \/ DescriptorSkipped
    \/ VersionTooOld
    \/ DescriptorMalformed
    \/ DescriptorLoaded
    \/ NoExtend
    \/ ExtendOne
    \/ ExtendList
    \/ ListEntry
    \/ ListEntryMerged
    \/ ListDone
    \/ ParentMerged
    \/ PropagateErr
    \/ LoadFailed
    \/ WorkspaceResolve
    \/ WorkspaceNone
    \/ WorkspaceMerged
    \/ DescriptorsMerged
    \/ SkipCoreTasks
    \/ Reload
    \/ ModifyUndefined
    \/ LateMerge

Spec == Init /\ [][Next]_vars

(***************************************************************************)
(* The pure merges applied to operands drawn from bounded sets.            *)
(***************************************************************************)
MaxEnvLen == 2
MaxTasks == 1

RECURSIVE IndexMaps(_, _, _)
\* the maps of at most n entries with keys of keys and values of values, in every order
IndexMaps(keys, values, n) ==
    IF n = 0 THEN {<<>>}
    ELSE LET shorter == IndexMaps(keys, values, n - 1)
         IN  shorter \cup
             UNION {{Append(m, E(key, value)) : key \in keys \ Keys(m), value \in values} :
                    m \in shorter}

EnvKeys == {"A", "B", CurrentTaskNameKey}

BaseValues ==
    {Value("1"),
     Profile(<<E("A", Value("1"))>>),
     Profile(<<E(CurrentTaskNameKey, Value("1")), E("B", Value("1"))>>),
     Profile(<<E("A", Profile(<<E("A", Value("1"))>>))>>)}

ExtendedValues ==
    {Value("2"),
     Profile(<<E("A", Value("2"))>>),
     Profile(<<E(CurrentTaskNameKey, Value("2")), E("B", Value("2"))>>),
     Profile(<<E("A", Profile(<<E(CurrentTaskNameKey, Value("2")), E("B", Value("2"))>>))>>)}

BaseEnvs == IndexMaps(EnvKeys, BaseValues, MaxEnvLen)
ExtendedEnvs == IndexMaps(EnvKeys, ExtendedValues, MaxEnvLen)

IdleInput == Input(FS(None, None, None, None, None), None, None, FALSE, FALSE, FALSE)

\* load is not run
Idle ==
    /\ input = IdleInput
    /\ pc = "idle"
    /\ pass = 0
    /\ stack = <<>>
    /\ ret = NoRet
    /\ ld_default_config = EmptyConfig
    /\ ld_external_config = ExternalConfig_new
    /\ load_config = EmptyConfig
    /\ result = NoResult
    /\ envvars = [CARGO_MAKE_MAKEFILE_PATH |-> None,
                  CARGO_MAKE_CORE_TASK_NAMESPACE |-> None,
                  CARGO_MAKE_CORE_TASK_NAMESPACE_PREFIX |-> None,
                  CARGO_MAKE_WORKSPACE_MAKEFILE |-> None]
    /\ log = <<>>

InitEnv ==
    /\ Idle
    /\ pure \in {[op |-> "operands", base |-> base, extended |-> extended, merged |-> <<>>] :
                    base \in BaseEnvs, extended \in ExtendedEnvs}

\* merge_env is applied
MergeEnv ==
    /\ pure.op = "operands"
    /\ pure' = [pure EXCEPT !.op = "merge_env",
                            !.merged = merge_env(pure.base, pure.extended)]
    /\ UNCHANGED loadvars

SpecEnv == InitEnv /\ [][MergeEnv]_vars

TaskNames == {"T", "U"}

MarkerEnv == <<E(InitialMakefileKey, Value("/project/Makefile.toml")),
               E(InitialMakefileDirectoryKey, Value("/project"))>>

BaseTaskEnvs == {None, Some(<<>>), Some(<<E("FOO", Value("1"))>>)}

ExtendedTaskEnvs ==
    {None, Some(<<>>), Some(MarkerEnv), Some(<<MarkerEnv[2], MarkerEnv[1]>>),
     Some(<<MarkerEnv[1]>>), Some(<<MarkerEnv[1], E("BAR", Value("2"))>>),
     Some(<<E("BAR", Value("2")), E("BAZ", Value("2"))>>),
     Some(Append(MarkerEnv, E("BAR", Value("2"))))}

BaseTasks == {Task(None, command, env) : command \in {None, Some("base")}, env \in BaseTaskEnvs}
ExtendedTasks ==
    {Task(None, command, env) : command \in {None, Some("extended")},
                                env \in ExtendedTaskEnvs}

InitTasks ==
    /\ Idle
    /\ pure \in {[op |-> "operands", base |-> base, extended |-> extended,
                  merge_task_env |-> merge_task_env, merged |-> <<>>] :
                    base \in IndexMaps(TaskNames, BaseTasks, MaxTasks),
                    extended \in IndexMaps(TaskNames, ExtendedTasks, MaxTasks),
                    merge_task_env \in BOOLEAN}

\* merge_tasks is applied
MergeTasks ==
    /\ pure.op = "operands"
    /\ pure' = [pure EXCEPT !.op = "merge_tasks",
                            !.merged = merge_tasks(pure.base, pure.extended,
                                                   pure.merge_task_env)]
    /\ UNCHANGED loadvars

SpecTasks == InitTasks /\ [][MergeTasks]_vars

(***************************************************************************)
(* The properties.                                                         *)
(***************************************************************************)
\* the keys that begin with CARGO_MAKE_CURRENT_TASK_
ReservedKey(key) ==
    key \in {InitialMakefileKey, InitialMakefileDirectoryKey, CurrentTaskNameKey}

RECURSIVE EnvMerged(_, _, _)
\* merged is the merge of extended over base: base's keys and extended's keys without
\* the reserved prefix; a key extended does not give keeps base's value; two Profiles
\* are merged by the same rule; otherwise extended's value stands as it is
EnvMerged(merged, base, extended) ==
    /\ IsIndexMap(merged)
    /\ Keys(merged) = Keys(base) \cup {key \in Keys(extended) : ~ReservedKey(key)}
    /\ \A key \in Keys(merged) :
          IF key \notin Keys(extended) \/ ReservedKey(key)
          THEN get(merged, key) = get(base, key)
          ELSE IF key \in Keys(base) /\ is_profile(get(base, key))
                  /\ is_profile(get(extended, key))
               THEN /\ is_profile(get(merged, key))
                    /\ EnvMerged(get(merged, key).m, get(base, key).m, get(extended, key).m)
               ELSE get(merged, key) = get(extended, key)

RECURSIVE ReservedOnlyFromBase(_, _)
\* at every nesting level, an entry of merged under a reserved key is base's entry
ReservedOnlyFromBase(merged, base) ==
    \A i \in 1..Len(merged) :
        LET key == merged[i].k
            value == merged[i].v
        IN  IF ReservedKey(key)
            THEN contains_key(base, key) /\ get(base, key) = value
            ELSE is_profile(value) =>
                 ReservedOnlyFromBase(value.m,
                                      IF contains_key(base, key) /\ is_profile(get(base, key))
                                      THEN get(base, key).m ELSE <<>>)

\* C8, as stated: the merge is by key as described, and no key of extended with the
\* reserved prefix contributes at any nesting level
C8_ReservedNowhere ==
    pure.op = "merge_env" =>
        /\ EnvMerged(pure.merged, pure.base, pure.extended)
        /\ ReservedOnlyFromBase(pure.merged, pure.base)

\* C8, amended: merge_env(base, extended) holds base's keys and extended's keys without
\* the reserved prefix; two Profiles under one key are merged by the same rule, the
\* reserved keys of extended's Profile skipped; any other value of extended stands as it
\* is, a Profile with the reserved keys it holds; merge(b, {}) = b and disjoint key sets
\* give the union
C8_EnvMerge ==
    pure.op = "merge_env" =>
        /\ EnvMerged(pure.merged, pure.base, pure.extended)
        /\ pure.extended = <<>> => pure.merged = pure.base
        /\ Keys(pure.base) \cap Keys(pure.extended) = {} =>
               \A key \in Keys(pure.merged) :
                   get(pure.merged, key) = IF key \in Keys(pure.base)
                                           THEN get(pure.base, key)
                                           ELSE get(pure.extended, key)

\* C8's case: a reserved key of extended is dropped at the top and inside two merged
\* Profiles, and a Profile of extended that meets no Profile keeps its reserved key
C8_Witness ==
    /\ pure.op = "merge_env"
    /\ contains_key(pure.extended, CurrentTaskNameKey)
    /\ ~contains_key(pure.merged, CurrentTaskNameKey)
    /\ \E key \in Keys(pure.base) \cap Keys(pure.extended) :
          /\ is_profile(get(pure.base, key)) /\ is_profile(get(pure.extended, key))
          /\ contains_key(get(pure.extended, key).m, CurrentTaskNameKey)
          /\ ~contains_key(get(pure.merged, key).m, CurrentTaskNameKey)

\* C9, as stated: the keys of base keep their order, also the overridden ones, and the
\* keys only extended has follow in extended's order
C9_KeyOrderKept ==
    pure.op = "merge_env" =>
        KeySeq(pure.merged) =
            KeySeq(pure.base)
            \o SelectSeq(KeySeq(pure.extended),
                         LAMBDA key : key \notin Keys(pure.base) /\ ~ReservedKey(key))

ExactlyMarkers(env) ==
    Len(env) = 2 /\ Keys(env) = {InitialMakefileKey, InitialMakefileDirectoryKey}

\* the env of a merged task when nothing is reverted: the extended task's if it has one
OverriddenEnv(base_task, extended_task) ==
    IF is_some(extended_task.env) THEN extended_task.env ELSE base_task.env

\* C10, as stated: the env is reverted to the base task's when the flag is set, the base
\* task's env is not empty and the extended task's env is the two markers; in every
\* other case the flag changes nothing
C10_RevertNonEmpty ==
    pure.op = "merge_tasks" =>
        \A name \in Keys(pure.base) \cap Keys(pure.extended) :
            LET base_task == get(pure.base, name)
                extended_task == get(pure.extended, name)
                merged_task == get(pure.merged, name)
            IN  IF /\ is_some(base_task.env) /\ unwrap(base_task.env) /= <<>>
                   /\ is_some(extended_task.env) /\ ExactlyMarkers(unwrap(extended_task.env))
                THEN merged_task.env = IF pure.merge_task_env THEN base_task.env
                                       ELSE extended_task.env
                ELSE merged_task.env = OverriddenEnv(base_task, extended_task)

\* C10, amended: the env is reverted to the base task's when the flag is set, the base
\* task declares an env, empty or not, and the extended task's env is the two markers;
\* in every other case the flag changes nothing; the other fields never depend on it
C10_Revert ==
    pure.op = "merge_tasks" =>
        \A name \in Keys(pure.base) \cap Keys(pure.extended) :
            LET base_task == get(pure.base, name)
                extended_task == get(pure.extended, name)
                merged_task == get(pure.merged, name)
            IN  /\ IF /\ is_some(base_task.env)
                      /\ is_some(extended_task.env)
                      /\ ExactlyMarkers(unwrap(extended_task.env))
                   THEN merged_task.env = IF pure.merge_task_env THEN base_task.env
                                          ELSE extended_task.env
                   ELSE merged_task.env = OverriddenEnv(base_task, extended_task)
                /\ merged_task.command = IF is_some(extended_task.command)
                                         THEN extended_task.command ELSE base_task.command

\* C10's case: the flag set, the extended env the two markers, the base env restored
C10_Witness ==
    /\ pure.op = "merge_tasks" /\ pure.merge_task_env
    /\ \E name \in Keys(pure.base) \cap Keys(pure.extended) :
          /\ get(pure.base, name).env = Some(<<E("FOO", Value("1"))>>)
          /\ is_some(get(pure.extended, name).env)
          /\ ExactlyMarkers(unwrap(get(pure.extended, name).env))
          /\ get(pure.merged, name).env = get(pure.base, name).env

Succeeded == pc = "done" /\ result.st = "Ok"

\* the config section the first pass discovers: the external/workspace composite's
Phase1Section == unwrap_or(ld_external_config.config, ConfigSection_new)
SkipRequested == unwrap_or(Phase1Section.skip_core_tasks, FALSE)
DirectiveHasEffect ==
    /\ is_some(Phase1Section.modify_core_tasks)
    /\ LET directive == unwrap(Phase1Section.modify_core_tasks)
       IN  \/ unwrap_or(directive.private, FALSE)
           \/ (is_some(directive.namespace) /\ unwrap(directive.namespace) /= "")

\* the result of the first pass: the composite over the base tier, the env pairs applied
Phase1Config ==
    merge_base_config_and_external_config(makefiles_BASE, ld_external_config,
                                          input.env_map, FALSE)

\* the tiers load_internal_descriptors was called for, in order
TiersLoaded == SelectSeq(log, LAMBDA event : event.e = "baseline")

\* C1, as stated: without a skip request and without a directive with effect, load
\* returns the final merge, late, of the stable baseline (experimental as asked, no
\* modify) with the first pass's composite, and every stable task is in the result
C1_StableBaselineMerged ==
    (Succeeded /\ ~SkipRequested /\ ~DirectiveHasEffect) =>
        /\ result.config =
               merge_base_config_and_external_config(
                   internal_descriptors(TRUE, input.experimental, None),
                   as_external_config(Phase1Config), input.env_map, TRUE)
        /\ Keys(makefiles_STABLE.tasks) \subseteq Keys(result.config.tasks)

RECURSIVE Chars(_)
Chars(chars) == IF chars = <<>> THEN "" ELSE chars[1] \o Chars(Tail(chars))

Separators(env_pair) == {i \in 1..Len(env_pair) : env_pair[i] = "="}
WellFormed(env_pair) == Cardinality(Separators(env_pair)) = 1
PairKey(env_pair) ==
    Chars(SubSeq(env_pair, 1, (CHOOSE i \in Separators(env_pair) : TRUE) - 1))
PairValue(env_pair) ==
    Chars(SubSeq(env_pair, (CHOOSE i \in Separators(env_pair) : TRUE) + 1, Len(env_pair)))
GivenPairs == unwrap_or(input.env_map, <<>>)

\* C3, as stated: every entry K=V with exactly one '=' has the returned env map K to V
C3_EveryPairWins ==
    Succeeded =>
        \A i \in 1..Len(GivenPairs) :
            WellFormed(GivenPairs[i]) =>
                /\ contains_key(result.config.env, PairKey(GivenPairs[i]))
                /\ get(result.config.env, PairKey(GivenPairs[i]))
                       = Value(PairValue(GivenPairs[i]))

\* C3, amended: in every branch, an entry K=V with exactly one '=', K without the
\* reserved prefix, and no later such entry for K, has the returned env map K to V
\* whatever the baseline and the descriptors define; an entry without exactly one '='
\* gives no key, and a load that fails fails for a descriptor
C3_CliWins ==
    /\ Succeeded =>
        /\ \A i \in 1..Len(GivenPairs) :
              (/\ WellFormed(GivenPairs[i])
               /\ ~ReservedKey(PairKey(GivenPairs[i]))
               /\ \A j \in (i + 1)..Len(GivenPairs) :
                     WellFormed(GivenPairs[j]) =>
                         PairKey(GivenPairs[j]) /= PairKey(GivenPairs[i]))
              => /\ contains_key(result.config.env, PairKey(GivenPairs[i]))
                 /\ get(result.config.env, PairKey(GivenPairs[i]))
                        = Value(PairValue(GivenPairs[i]))
        /\ Keys(result.config.env) \subseteq
               Keys(makefiles_STABLE.env)
               \cup Keys(unwrap_or(ld_external_config.env, <<>>))
               \cup {PairKey(GivenPairs[i]) :
                        i \in {j \in 1..Len(GivenPairs) : WellFormed(GivenPairs[j])}}
    /\ (pc = "done" /\ result.st /= "Ok") =>
           /\ log /= <<>>
           /\ log[Len(log)].e \in {"missing", "gate_failed", "gate_passed"}

\* C3's case: X=3 given once, X defined by the baseline and by the descriptors
C3_Witness ==
    /\ Succeeded
    /\ \E i \in 1..Len(GivenPairs) : GivenPairs[i] = <<"X", "=", "3">>
    /\ \E i \in 1..Len(GivenPairs) : ~WellFormed(GivenPairs[i])
    /\ contains_key(unwrap_or(ld_external_config.env, <<>>), "X")
    /\ get(unwrap_or(ld_external_config.env, <<>>), "X") /= Value("3")
    /\ get(result.config.env, "X") = Value("3")
    /\ TiersLoaded[Len(TiersLoaded)].val = "stable+beta"

\* what the descriptor at path declares, for a file that exists and decodes
Decodes(path) == path \in DOMAIN input.fs /\ input.fs[path].syntax_ok
Declared(path) == input.fs[path].raw
DeclaresScript(path) ==
    /\ Decodes(path)
    /\ is_some(Declared(path).config)
    /\ is_some(unwrap(Declared(path).config).load_script)
Events(e, path) == {i \in 1..Len(log) : log[i].e = e /\ log[i].path = path}

\* the hook runs right after each stamp of a descriptor that declares a script, and
\* an ancestor is resolved only after the stamp, and the hook, of the load that declares it
ScriptAtEachLoad ==
    /\ \A i \in 1..Len(log) :
          log[i].e = "stamp" =>
              /\ i < Len(log) \/ ~DeclaresScript(log[i].path)
              /\ DeclaresScript(log[i].path) =>
                     log[i + 1] = Event("script", log[i].path,
                                        unwrap(unwrap(Declared(log[i].path).config).load_script))
              /\ (~DeclaresScript(log[i].path) /\ i < Len(log)) => log[i + 1].e /= "script"
    /\ \A i \in 1..Len(log) :
          log[i].e = "script" =>
              i > 1 /\ log[i - 1].e = "stamp" /\ log[i - 1].path = log[i].path
    /\ \A i \in 1..Len(log) :
          (log[i].e = "resolve" /\ log[i].val /= "") =>
              \E j \in 1..(i - 1) :
                  /\ log[j].e = "stamp" /\ canonicalize_or(log[j].path) = log[i].val
                  /\ \A h \in (j + 1)..(i - 1) :
                        ~(log[h].e = "return" /\ log[h].path = log[j].path)
                  /\ DeclaresScript(log[j].path) =>
                        j + 1 < i /\ log[j + 1].e = "script"

\* C4, as stated: in one run of load the hook is invoked at most once for a descriptor,
\* and before its ancestors are resolved
C4_ScriptOncePerRun ==
    /\ \A path \in AllPaths : Cardinality(Events("script", path)) <= 1
    /\ ScriptAtEachLoad

\* C4, amended: the hook is invoked exactly once for each load of a descriptor that
\* declares a load script, right after the stamp and before that load resolves any
\* ancestor; a descriptor loaded several times in one run (named twice in the chain, or
\* loaded by both passes when everything is reloaded) has its hook invoked once per load
C4_ScriptOncePerLoad ==
    /\ ScriptAtEachLoad
    /\ \A path \in AllPaths :
          Cardinality(Events("script", path)) =
              IF DeclaresScript(path) THEN Cardinality(Events("stamp", path)) ELSE 0

\* C4's case: everything reloaded, the ancestor's hook invoked in both passes, each
\* time before the resolution of the ancestor returns
C4_Witness ==
    /\ Succeeded /\ pass = 2
    /\ Cardinality(Events("script", P_a)) >= 2
    /\ Cardinality(Events("script", P_top)) = 2
    /\ \E i \in 1..Len(log) : log[i].e = "resolve" /\ log[i].val = canonicalize_or(P_top)

Stamped(path) == add_file_location_info(Declared(path), path)

RECURSIVE Resolved(_)
RECURSIVE ListOver(_, _, _)
\* the chain resolution of the descriptor at path, every ancestor found or optional
Resolved(path) ==
    IF path \notin DOMAIN input.fs THEN ExternalConfig_new
    ELSE LET own == Stamped(path)
         IN  IF is_none(own.extend) THEN own
             ELSE IF unwrap(own.extend).t = "List"
                  THEN merge_external_configs(
                           own, ListOver(path.dir, unwrap(own.extend).list,
                                         Len(unwrap(own.extend).list)))
                  ELSE merge_external_configs(
                           own, Resolved(join(path.dir, unwrap(own.extend).path)))

\* the entry n over ... over the entry 1
ListOver(dir, list, n) ==
    IF n = 0 THEN ExternalConfig_new
    ELSE merge_external_configs(Resolved(join(dir, list[n].path)), ListOver(dir, list, n - 1))

\* the descriptor, then its list's entries from the last to the first, each resolved
Precedence(path) ==
    LET list == unwrap(Declared(path).extend).list
    IN  <<Stamped(path)>>
        \o [i \in 1..Len(list) |-> Resolved(join(path.dir, list[Len(list) + 1 - i].path))]

RECURSIVE Concat(_, _, _)
\* the field's lists of seq[i..], one after the other
Concat(seq, field, i) ==
    IF i > Len(seq) THEN <<>>
    ELSE unwrap_or(seq[i][field], <<>>) \o Concat(seq, field, i + 1)

RECURSIVE FirstSet(_, _, _, _)
\* the field of the task name in the first of seq[i..] that defines the task and sets it
FirstSet(seq, name, field, i) ==
    IF i > Len(seq) THEN None
    ELSE LET tasks == unwrap_or(seq[i].tasks, <<>>)
         IN  IF contains_key(tasks, name) /\ is_some(get(tasks, name)[field])
             THEN get(tasks, name)[field]
             ELSE FirstSet(seq, name, field, i + 1)

TaskFields == {"description", "command", "private", "env"}

\* the chain resolution of a descriptor with an ordered list has just returned
ListReturned ==
    /\ ret.st = "Ok" /\ log /= <<>>
    /\ log[Len(log)].e = "return"
    /\ is_some(Declared(log[Len(log)].path).extend)
    /\ unwrap(Declared(log[Len(log)].path).extend).t = "List"

\* C5: the chain resolution of C with extend [A1, ..., An] returns combine(C, An over
\* ... over A1); each field of a task comes from the first of C, An, ..., A1 that defines
\* the task and sets the field; env-files and env-scripts are C's, then An's, ..., A1's
C5_OrderedList ==
    ListReturned =>
        LET path == log[Len(log)].path
            list == unwrap(Declared(path).extend).list
            order == Precedence(path)
            tasks == unwrap(ret.cfg.tasks)
        IN  /\ ret.cfg = merge_external_configs(Stamped(path),
                                                ListOver(path.dir, list, Len(list)))
            /\ ret.cfg.env_files = Some(Concat(order, "env_files", 1))
            /\ ret.cfg.env_scripts = Some(Concat(order, "env_scripts", 1))
            /\ Keys(tasks) = UNION {Keys(unwrap_or(order[i].tasks, <<>>)) : i \in 1..Len(order)}
            /\ \A name \in Keys(tasks) : \A field \in TaskFields :
                   get(tasks, name)[field] = FirstSet(order, name, field, 1)

\* C5's case: extend = [a, b], X defined by the three: its description is b's and its
\* command C's, a's lists come last
C5_Witness ==
    /\ ListReturned
    /\ log[Len(log)].path = P_top
    /\ unwrap(Declared(P_top).extend).list = <<ExtendOptions(P_a, None), ExtendOptions(P_b, Some(FALSE))>>
    /\ get(unwrap(ret.cfg.tasks), "X").description = Some("b-desc")
    /\ get(unwrap(ret.cfg.tasks), "X").command = Some("top-x")
    /\ unwrap(ret.cfg.env_scripts) = <<"top-script", "c-script", "a-script">>

\* the descriptor that declared the ancestor the event i resolves
DeclarerOf(i) == CHOOSE path \in AllPaths : canonicalize_or(path) = log[i].val

\* the event i resolves the one ancestor of a descriptor, and the file is absent
ResolvesAbsent(i) ==
    /\ log[i].e = "resolve" /\ log[i].val /= ""
    /\ unwrap(Declared(DeclarerOf(i)).extend).t \in {"Path", "Options"}
    /\ log[i].path \notin DOMAIN input.fs

\* the extend is {path, optional: true}
DeclaredOptional(extend) ==
    unwrap(extend).t = "Options" /\ unwrap(extend).optional = Some(TRUE)

\* the chain resolution of a descriptor whose one ancestor is absent has just returned
SkippedReturned ==
    /\ ret.st = "Ok" /\ Len(log) >= 3
    /\ log[Len(log)].e = "return"
    /\ log[Len(log) - 1].e = "skipped"
    /\ ResolvesAbsent(Len(log) - 2)
    /\ DeclarerOf(Len(log) - 2) = log[Len(log)].path

\* an absent ancestor is skipped when declared optional, and is DescriptorMissing
\* otherwise, the load returning no configuration
MissingIffNotOptional ==
    /\ \A i \in 1..Len(log) :
          (ResolvesAbsent(i) /\ i < Len(log)) =>
              IF DeclaredOptional(Declared(DeclarerOf(i)).extend)
              THEN log[i + 1] = Event("skipped", log[i].path, "")
              ELSE /\ log[i + 1] = Event("missing", log[i].path, "")
                   /\ i + 1 = Len(log)
                   /\ result = [st |-> "Panic", config |-> EmptyConfig,
                                err |-> "DescriptorMissing"]
    /\ SkippedReturned => DeclaredOptional(Declared(log[Len(log)].path).extend)

\* what the returned configuration keeps of the descriptor's own, the env apart
OwnKept(cfg, own) ==
    /\ cfg.env_files = Some(unwrap_or(own.env_files, <<>>))
    /\ cfg.env_scripts = Some(unwrap_or(own.env_scripts, <<>>))
    /\ cfg.tasks = Some(unwrap_or(own.tasks, <<>>))
    /\ cfg.config = Some(unwrap_or(own.config, ConfigSection_new))

NotReserved(entry) == ~ReservedKey(entry.k)

\* C6, as stated: an absent ancestor is an error exactly when it is not optional, and
\* with {path, optional: true} the resolution returns the descriptor's own stamped
\* configuration with the same env entries, env-files, env-scripts, tasks and section
C6_OwnUnmodified ==
    /\ MissingIffNotOptional
    /\ SkippedReturned =>
          LET own == Stamped(log[Len(log)].path)
          IN  /\ OwnKept(ret.cfg, own)
              /\ ret.cfg.env = Some(unwrap_or(own.env, <<>>))

\* C6, amended: as stated, but of the descriptor's own env entries the resolution
\* returns, in their order, those whose key does not start with
\* CARGO_MAKE_CURRENT_TASK_, the others being dropped
C6_OwnButReserved ==
    /\ MissingIffNotOptional
    /\ SkippedReturned =>
          LET own == Stamped(log[Len(log)].path)
          IN  /\ OwnKept(ret.cfg, own)
              /\ ret.cfg.env = Some(SelectSeq(unwrap_or(own.env, <<>>), NotReserved))

\* C6's case: the optional ancestor is absent, the descriptor declares tasks and an env
\* with a reserved key, and its chain resolution has returned
C6_Witness ==
    /\ SkippedReturned
    /\ unwrap_or(Stamped(log[Len(log)].path).tasks, <<>>) /= <<>>
    /\ \E key \in Keys(unwrap_or(Stamped(log[Len(log)].path).env, <<>>)) : ReservedKey(key)
    /\ \E key \in Keys(unwrap(ret.cfg.env)) : ~ReservedKey(key)

\* the descriptor at path declares a min_version newer than the running version
TooNew(path) ==
    /\ Decodes(path)
    /\ is_some(Declared(path).config)
    /\ is_some(unwrap(Declared(path).config).min_version)
    /\ is_newer_found(unwrap(unwrap(Declared(path).config).min_version))

\* C7: every descriptor read passes the gate unless it declares a min_version newer than
\* the running version (one without min_version, or one that does not decode, passes);
\* the one that fails is the last thing the load does: it is neither stamped, nor is its
\* script invoked, nor are its ancestors resolved, and load fails with exactly its
\* min_version and no configuration
C7_VersionGate ==
    /\ \A i \in 1..Len(log) :
          log[i].e = "read" =>
              /\ i < Len(log)
              /\ log[i + 1] = Event(IF TooNew(log[i].path) THEN "gate_failed"
                                    ELSE "gate_passed", log[i].path, "")
    /\ \A i \in 1..Len(log) :
          log[i].e = "gate_failed" =>
              /\ i = Len(log)
              /\ ret = Err(unwrap(unwrap(Declared(log[i].path).config).min_version))
              /\ pc = "done" =>
                     result = [st |-> "Err", config |-> EmptyConfig,
                               err |-> unwrap(unwrap(Declared(log[i].path).config).min_version)]
    /\ \A path \in AllPaths :
          TooNew(path) =>
              /\ Events("stamp", path) = {} /\ Events("script", path) = {}
              /\ \A i \in 1..Len(log) : log[i].val /= canonicalize_or(path)
    /\ result.st = "Err" => log[Len(log)].e = "gate_failed"
    /\ (pc = "done" /\ log /= <<>> /\ log[Len(log)].e = "gate_failed") => result.st = "Err"

\* C7's case: an ancestor below the top-level descriptor declares a min_version that is
\* too new, and the load has failed with it after stamping the descriptors above
C7_Witness ==
    /\ pc = "done" /\ result.st = "Err"
    /\ log[Len(log)].e = "gate_failed"
    /\ log[Len(log)].path \notin {P_top, P_ws}
    /\ Events("stamp", P_top) /= {}
    /\ \E i \in 1..Len(log) : log[i].e = "resolve" /\ log[i].val /= canonicalize_or(P_top)

\* the env-file reference is a resolved record whose base_path is the one its descriptor
\* declared for it, or else the directory of a stamped descriptor that declared it
LocatedEnvFile(env_file) ==
    /\ env_file.t = "Info" /\ is_some(env_file.base_path)
    /\ \E path \in AllPaths :
          /\ Decodes(path) /\ Events("stamp", path) /= {}
          /\ \E j \in 1..Len(unwrap_or(Declared(path).env_files, <<>>)) :
                LET declared == unwrap(Declared(path).env_files)[j]
                IN  /\ declared.path = env_file.path
                    /\ env_file.base_path =
                           IF declared.t = "Info" /\ is_some(declared.base_path)
                           THEN declared.base_path
                           ELSE Some(DirString(path.dir))

\* every env file of the configuration is located
EnvFilesLocated(cfg) ==
    \A i \in 1..Len(unwrap_or(cfg.env_files, <<>>)) : LocatedEnvFile(unwrap(cfg.env_files)[i])

\* the frame holds a stamped descriptor: every task it declares has the two markers,
\* the descriptor's absolute path and its directory, and its env files are located
FreshlyStamped(frame) ==
    /\ EnvFilesLocated(frame.file_config)
    /\ Len(unwrap_or(frame.file_config.env_files, <<>>))
           = Len(unwrap_or(Declared(frame.file_path).env_files, <<>>))
    /\ Keys(unwrap_or(frame.file_config.tasks, <<>>))
           = Keys(unwrap_or(Declared(frame.file_path).tasks, <<>>))
    /\ \A name \in Keys(unwrap_or(frame.file_config.tasks, <<>>)) :
          LET task == get(unwrap(frame.file_config.tasks), name)
          IN  /\ is_some(task.env)
              /\ contains_key(unwrap(task.env), InitialMakefileKey)
              /\ get(unwrap(task.env), InitialMakefileKey)
                     = Value(DirString(frame.file_path.dir) \o "/" \o frame.file_path.name)
              /\ contains_key(unwrap(task.env), InitialMakefileDirectoryKey)
              /\ get(unwrap(task.env), InitialMakefileDirectoryKey)
                     = Value(DirString(frame.file_path.dir))

\* C11: every env file of the configuration a chain resolution returns is a resolved
\* record with a base_directory, the one its descriptor declared for it if it declared
\* one and the directory of the descriptor that declared it otherwise, none of the
\* returning descriptor's own being lost; and every task of a freshly stamped descriptor
\* has both markers in its env, set to the descriptor's absolute path and directory
C11_LocationKept ==
    /\ \A i \in 1..Len(stack) : stack[i].stage /= "enter" => FreshlyStamped(stack[i])
    /\ ret.st = "Ok" =>
          /\ EnvFilesLocated(ret.cfg)
          /\ (log /= <<>> /\ log[Len(log)].e = "return") =>
                \A j \in 1..Len(unwrap_or(Declared(log[Len(log)].path).env_files, <<>>)) :
                    \E i \in 1..Len(unwrap(ret.cfg.env_files)) :
                        unwrap(ret.cfg.env_files)[i].path
                            = unwrap(Declared(log[Len(log)].path).env_files)[j].path

\* C11's case: the chain Makefile.toml, sub/b.toml, sub/c.toml has returned: top.env is
\* located at /project, c2.env at /project/sub and c.env where c.toml declared it
C11_Witness ==
    /\ ret.st = "Ok" /\ log /= <<>>
    /\ log[Len(log)] = Event("return", P_top, "")
    /\ ret.cfg.env_files = Some(<<EnvFile_Info("top.env", Some("/project")),
                                  EnvFile_Info("c.env", Some("/elsewhere")),
                                  EnvFile_Info("c2.env", Some("/project/sub"))>>)

NamespaceEvents == {"set_namespace", "set_namespace_prefix"}

\* the namespace of the directive the second pass hands to the baseline loader, if the
\* first pass found a directive with effect that declares one and no skip request
SuppliedNamespace ==
    IF ~SkipRequested /\ DirectiveHasEffect
    THEN unwrap(Phase1Section.modify_core_tasks).namespace
    ELSE None

PrefixOf(namespace) == IF namespace = "" THEN "" ELSE namespace \o "::"

RECURSIVE LastWrite(_, _, _)
\* the value of the last write of the signal among log[1..i], or initial
LastWrite(signal, i, initial) ==
    IF i = 0 THEN initial
    ELSE IF log[i].e = signal THEN Some(log[i].val)
         ELSE LastWrite(signal, i - 1, initial)

\* every invocation of the baseline loader writes the empty text to both signals, and
\* then the namespace and its prefix if it was handed a directive that declares one;
\* the signals are written nowhere else
ResetThenSet ==
    /\ \A i \in 1..Len(log) :
          log[i].e = "baseline" =>
              /\ i + 2 <= Len(log)
              /\ log[i + 1] = Event("set_namespace", NoPath, "")
              /\ log[i + 2] = Event("set_namespace_prefix", NoPath, "")
              /\ IF log[i].val /= "base" /\ is_some(SuppliedNamespace)
                 THEN /\ i + 4 <= Len(log)
                      /\ log[i + 3] = Event("set_namespace", NoPath, unwrap(SuppliedNamespace))
                      /\ log[i + 4] = Event("set_namespace_prefix", NoPath,
                                            PrefixOf(unwrap(SuppliedNamespace)))
                 ELSE i + 3 <= Len(log) => log[i + 3].e \notin NamespaceEvents
    /\ \A i \in 1..Len(log) :
          log[i].e \in NamespaceEvents =>
              i > 1 /\ log[i - 1].e \in NamespaceEvents \cup {"baseline"}
    /\ envvars.CARGO_MAKE_CORE_TASK_NAMESPACE
           = LastWrite("set_namespace", Len(log),
                       IF input.stale THEN Some("stale") ELSE None)
    /\ envvars.CARGO_MAKE_CORE_TASK_NAMESPACE_PREFIX
           = LastWrite("set_namespace_prefix", Len(log),
                       IF input.stale THEN Some("stale::") ELSE None)

\* the names of the tasks of the descriptors on disk and of the bundled tiers
PlainTaskNames ==
    UNION {Keys(unwrap_or(Declared(path).tasks, <<>>)) : path \in {p \in AllPaths : Decodes(p)}}
    \cup Keys(makefiles_STABLE.tasks) \cup Keys(makefiles_BETA.tasks)

\* C12: every invocation of the baseline loader resets both namespace signals before it
\* sets them, and when load returns successfully the signals hold the directive's
\* namespace and prefix exactly when the returned tasks come from a baseline modified by
\* a directive that declares a namespace (the stable tasks are there under the prefix);
\* in every other branch both are empty and no returned task is renamed
C12_NamespaceChannel ==
    /\ ResetThenSet
    /\ Succeeded =>
          IF is_some(SuppliedNamespace)
          THEN /\ envvars.CARGO_MAKE_CORE_TASK_NAMESPACE = SuppliedNamespace
               /\ envvars.CARGO_MAKE_CORE_TASK_NAMESPACE_PREFIX
                      = Some(PrefixOf(unwrap(SuppliedNamespace)))
               /\ \A name \in Keys(makefiles_STABLE.tasks) :
                      contains_key(result.config.tasks,
                                   PrefixOf(unwrap(SuppliedNamespace)) \o name)
          ELSE /\ envvars.CARGO_MAKE_CORE_TASK_NAMESPACE = Some("")
               /\ envvars.CARGO_MAKE_CORE_TASK_NAMESPACE_PREFIX = Some("")
               /\ Keys(result.config.tasks) \subseteq PlainTaskNames

\* C12's case: the signals held a stale namespace, the directive declares the namespace
\* core, everything was reloaded and the core tasks are returned under core::
C12_Witness ==
    /\ Succeeded /\ pass = 2 /\ input.stale
    /\ envvars.CARGO_MAKE_CORE_TASK_NAMESPACE = Some("core")
    /\ envvars.CARGO_MAKE_CORE_TASK_NAMESPACE_PREFIX = Some("core::")
    /\ contains_key(result.config.tasks, "core::build")
    /\ Len(TiersLoaded) = 2

====
